---- MODULE Spec2Model ----
(***************************************************************************)
(* Model of src/main.py: the premarket screener pipeline                   *)
(*   snapshot query -> relative-volume filter -> Finnhub news check ->     *)
(*   formatting, ranking, markdown export and console print.               *)
(*                                                                         *)
(* Data representation                                                     *)
(*  - A cell of a DataFrame is a record [kind, num, den, chars]:           *)
(*      kind = "num"  : the number num/den (den > 0, num >= 0),            *)
(*      kind = "nan"  : a missing number (float NaN / pd.NA),               *)
(*      kind = "none" : Python's None,                                     *)
(*      kind = "str"  : the string chars.                                  *)
(*  - A string is a sequence of one-character strings; Ord gives the code  *)
(*    point Python compares strings by.                                    *)
(*  - Floats of the input are multiples of 1/8 (exactly representable in   *)
(*    binary), so that Python's correctly rounded "%.2f" is the            *)
(*    round-half-even of the exact value.  Quotients volume/average of the *)
(*    input domain never fall exactly between two hundredths.              *)
(***************************************************************************)
EXTENDS Integers, Sequences, FiniteSets, TLC

\* ---------------------------------------------------------------- configuration
MIN_CLOSE_PRICE == 2
MAX_CLOSE_PRICE == 20
MIN_PREMARKET_CHANGE == 10
MAX_FLOAT_SHARES == 20000000
MIN_RELATIVE_VOLUME_MULTIPLIER == 5
NEWS_CHECK_HOURS == 24
TIME_BUFFER_MINUTES == 30
\* display_df.head(10) / filtered_df.head(10)
HEAD_ROWS == 10

\* Column names
TICKER_COL == "name"
PRICE_COL == "close"
CHANGE_COL == "premarket_change"
FLOAT_COL == "float_shares_outstanding"
VOL_COL == "volume"
AVG_VOL_COL_NAME == "average_volume_60d_calc"
PREV_AVG_VOL_COL == "average_volume_60d_calc|1"

\* ---------------------------------------------------------------- bounds
MaxRows == 2
MaxArticles == 2

\* ---------------------------------------------------------------- cells and strings
Num(n, d) == [kind |-> "num", num |-> n, den |-> d, chars |-> <<>>]
NaN == [kind |-> "nan", num |-> 0, den |-> 1, chars |-> <<>>]
None == [kind |-> "none", num |-> 0, den |-> 1, chars |-> <<>>]
Str(s) == [kind |-> "str", num |-> 0, den |-> 1, chars |-> s]

\* pd.isna(x)
IsNa(x) == x.kind \in {"nan", "none"}

Digits == <<"0", "1", "2", "3", "4", "5", "6", "7", "8", "9">>

\* Code point of a character (the order Python compares strings by).
Ord(c) ==
    CASE c = " " -> 32
      [] c = "," -> 44
      [] c = "-" -> 45
      [] c = "." -> 46
      [] c = ":" -> 58
      [] OTHER -> 48 + (CHOOSE d \in 0..9 : Digits[d + 1] = c)

IsDigit(c) == \E d \in 0..9 : Digits[d + 1] = c

DigitVal(c) == CHOOSE d \in 0..9 : Digits[d + 1] = c

\* Python's str < str: lexicographic by code point, a proper prefix is smaller.
RECURSIVE StrLess(_, _)
StrLess(a, b) ==
    IF b = <<>> THEN FALSE
    ELSE IF a = <<>> THEN TRUE
    ELSE IF Head(a) # Head(b) THEN Ord(Head(a)) < Ord(Head(b))
    ELSE StrLess(Tail(a), Tail(b))

RECURSIVE Pow10(_)
Pow10(k) == IF k = 0 THEN 1 ELSE 10 * Pow10(k - 1)

\* Decimal digits of a natural number, most significant first.
RECURSIVE IntChars(_)
IntChars(n) ==
    IF n < 10 THEN <<Digits[n + 1]>>
    ELSE IntChars(n \div 10) \o <<Digits[(n % 10) + 1]>>

\* Exactly k digits of n, zero padded on the left (the fraction part).
RECURSIVE PadChars(_, _)
PadChars(n, k) ==
    IF k = 0 THEN <<>>
    ELSE PadChars(n \div 10, k - 1) \o <<Digits[(n % 10) + 1]>>

\* The "," option of the format mini-language: groups of three from the right.
RECURSIVE GroupThousands(_)
GroupThousands(s) ==
    IF Len(s) <= 3 THEN s
    ELSE GroupThousands(SubSeq(s, 1, Len(s) - 3)) \o <<",">> \o SubSeq(s, Len(s) - 2, Len(s))

\* Round num/den to the nearest integer, ties to even (float formatting).
RoundHalfEven(num, den) ==
    LET q == num \div den
        r == num % den
    IN IF 2 * r < den THEN q
       ELSE IF 2 * r > den THEN q + 1
       ELSE IF q % 2 = 0 THEN q ELSE q + 1

\* "{:.<dp>f}" / "{:,.<dp>f}" applied to the number num/den.
FixedChars(num, den, dp, grouped) ==
    LET scaled == RoundHalfEven(num * Pow10(dp), den)
        ip == IntChars(scaled \div Pow10(dp))
        fp == PadChars(scaled % Pow10(dp), dp)
    IN (IF grouped THEN GroupThousands(ip) ELSE ip)
         \o (IF dp > 0 THEN <<".">> \o fp ELSE <<>>)

\* format_number's _fmt: "" for a missing value, "" when format() raises
\* (a string given to an "f" format raises ValueError), else the grouped text.
FmtCell(x, decimal_places) ==
    IF IsNa(x) THEN Str(<<>>)
    ELSE IF x.kind # "num" THEN Str(<<>>)
    ELSE Str(FixedChars(x.num, x.den, decimal_places, TRUE))

\* ---------------------------------------------------------------- news check
\* bool(x) of a cell: None, "" and 0 are falsy, a float NaN is truthy.
Truthy(x) ==
    CASE x.kind = "none" -> FALSE
      [] x.kind = "str" -> x.chars # <<>>
      [] x.kind = "num" -> x.num # 0
      [] OTHER -> TRUE

\* s.split(":")[-1]: what follows the last separator.
RECURSIVE AfterLastColon(_)
AfterLastColon(s) ==
    IF \E i \in 1..Len(s) : s[i] = ":"
    THEN AfterLastColon(SubSeq(s, (CHOOSE i \in 1..Len(s) : s[i] = ":") + 1, Len(s)))
    ELSE s

\* s.strip(): leading and trailing blanks removed.
RECURSIVE Strip(_)
Strip(s) ==
    IF s = <<>> THEN s
    ELSE IF Head(s) = " " THEN Strip(Tail(s))
    ELSE IF s[Len(s)] = " " THEN Strip(SubSeq(s, 1, Len(s) - 1))
    ELSE s

normalize_ticker_for_finnhub(symbol) ==
    IF ~Truthy(symbol) \/ symbol.kind # "str" THEN symbol
    ELSE Str(Strip(AfterLastColon(symbol.chars)))

\* An article of the provider's payload:
\*   kind     "dict", or "other" for an entry that is no mapping (art.get raises),
\*   dt_kind  "int", "none" (no "datetime" key) or "str" (a non-empty string),
\*   datetime the Unix timestamp when dt_kind = "int",
\*   url, news_url  "" stands for a missing, None or empty field.
Article(k, dk, ts, u, nu) ==
    [kind |-> k, dt_kind |-> dk, datetime |-> ts, url |-> u, news_url |-> nu]

\* art.get("url") or art.get("news_url") or ""
ArtUrl(art) == IF art.url # "" THEN art.url ELSE art.news_url

\* Mutant of AfterCutoff: the comparison made inclusive.
AfterCutoffInclusive(art, cutoff_unix) ==
    /\ art.dt_kind = "int"
    /\ art.datetime # 0
    /\ art.datetime >= cutoff_unix

\* art_ts and art_ts > cutoff_unix, for an integer or missing timestamp.
AfterCutoff(art, cutoff_unix) ==
    /\ art.dt_kind = "int"
    /\ art.datetime # 0
    /\ art.datetime > cutoff_unix

\* The for loop of check_for_news_finnhub: the outcome is a return value or an
\* exception raised by an entry the loop reaches.
RECURSIVE ScanArticles(_, _)
ScanArticles(articles, cutoff_unix) ==
    IF articles = <<>> THEN [raised |-> FALSE, makes_news |-> FALSE, url |-> ""]
    ELSE LET art == Head(articles)
         IN IF art.kind # "dict" \/ art.dt_kind = "str"
            THEN [raised |-> TRUE, makes_news |-> FALSE, url |-> ""]
            ELSE IF AfterCutoff(art, cutoff_unix)
            THEN [raised |-> FALSE, makes_news |-> TRUE, url |-> ArtUrl(art)]
            ELSE ScanArticles(Tail(articles), cutoff_unix)

\* int(cutoff_time_utc.timestamp()); the cutoff instant is held in half seconds.
CutoffUnix(cutoff_half) == cutoff_half \div 2

\* The body of the try block.  response is what client.company_news does for
\* this call: kind "raise", "none" (None or an empty list) or "list".
NewsLookup(symbol, cutoff_half, response) ==
    IF response.kind = "raise"
    THEN [raised |-> TRUE, makes_news |-> FALSE, url |-> ""]
    ELSE IF response.kind = "none" \/ response.articles = <<>>
    THEN [raised |-> FALSE, makes_news |-> FALSE, url |-> ""]
    ELSE ScanArticles(response.articles, CutoffUnix(cutoff_half))

\* Mutant of ExceptToNoNews: no except clause, the exception propagates.
ExceptPropagates(r) == r

\* try: ... except Exception: return False, ""
ExceptToNoNews(r) ==
    IF r.raised THEN [raised |-> FALSE, makes_news |-> FALSE, url |-> ""] ELSE r

\* check_for_news_finnhub.  called tells whether client.company_news was
\* invoked; raised whether an exception leaves the function.
check_for_news_finnhub(ticker, cutoff_half, client, response) ==
    LET symbol == normalize_ticker_for_finnhub(ticker)
        nothing == [raised |-> FALSE, makes_news |-> FALSE, url |-> "", called |-> FALSE]
    IN IF client = "None" THEN nothing
       ELSE IF ~Truthy(symbol) THEN nothing
       ELSE LET r == ExceptToNoNews(NewsLookup(symbol, cutoff_half, response))
            IN [raised |-> r.raised, makes_news |-> r.makes_news, url |-> r.url,
                called |-> TRUE]

\* Mutant of get_finnhub_client: the missing key is not checked.
get_finnhub_client_unchecked(api_key_set, init_ok) ==
    IF ~init_ok THEN "None" ELSE "client"

\* get_finnhub_client: None without an API key or when the constructor raises.
get_finnhub_client(api_key_set, init_ok) ==
    IF ~api_key_set THEN "None"
    ELSE IF ~init_ok THEN "None"
    ELSE "client"

\* ---------------------------------------------------------------- data frames
\* df[col] = val for one row: the column is added or overwritten.
SetCol(row, col, val) ==
    [c \in (DOMAIN row) \cup {col} |-> IF c = col THEN val ELSE row[c]]

\* x > k and x < k for a cell and an integer k; a missing value compares False.
CellGt(x, k) == x.kind = "num" /\ x.num > k * x.den
CellLt(x, k) == x.kind = "num" /\ x.num < k * x.den

\* The where() clause the snapshot provider applies: between is inclusive,
\* the other two are strict; a null field satisfies no predicate.
StaticPredicates(row) ==
    /\ row[PRICE_COL].kind = "num"
    /\ ~CellLt(row[PRICE_COL], MIN_CLOSE_PRICE)
    /\ ~CellGt(row[PRICE_COL], MAX_CLOSE_PRICE)
    /\ CellGt(row[CHANGE_COL], MIN_PREMARKET_CHANGE)
    /\ CellLt(row[FLOAT_COL], MAX_FLOAT_SHARES)

\* series.replace(0, pd.NA)
ReplaceZeroByNA(x) == IF x.kind = "num" /\ x.num = 0 THEN NaN ELSE x

\* df[VOL_COL] / df[PREV_AVG_VOL_COL].replace(0, pd.NA)
VolumeRatio(row) ==
    LET v == row[VOL_COL]
        a == ReplaceZeroByNA(row[PREV_AVG_VOL_COL])
    IN IF v.kind # "num" \/ a.kind # "num" THEN NaN
       ELSE Num(v.num * a.den, v.den * a.num)

\* Mutant of PassesRelativeVolume: the threshold made inclusive.
PassesRelativeVolumeInclusive(row) ==
    ~CellLt(row["Volume Ratio"], MIN_RELATIVE_VOLUME_MULTIPLIER)
      /\ row["Volume Ratio"].kind = "num"

\* df["Volume Ratio"] > MIN_RELATIVE_VOLUME_MULTIPLIER
PassesRelativeVolume(row) ==
    CellGt(row["Volume Ratio"], MIN_RELATIVE_VOLUME_MULTIPLIER)

\* Lines 220-221: the ratio column, then the rows above the multiplier.
WithVolumeRatio(df) ==
    [i \in 1..Len(df) |-> SetCol(df[i], "Volume Ratio", VolumeRatio(df[i]))]

RelativeVolumeFilter(df) == SelectSeq(WithVolumeRatio(df), PassesRelativeVolume)

\* Mutant of AfterQuery: the second early return is missing.
AfterQueryOneReturn(df, filtered) == IF df = <<>> THEN "early" ELSE "news"

\* The two early returns (df.empty, filtered_df.empty), else the news stage.
AfterQuery(df, filtered) ==
    IF df = <<>> THEN "early"
    ELSE IF filtered = <<>> THEN "early"
    ELSE "news"

\* ---------------------------------------------------------------- formatting
\* f"{x:.2f}" if pd.notna(x) else ""; a string given to the format raises.
PriceCell(x) ==
    IF IsNa(x) THEN Str(<<>>)
    ELSE IF x.kind = "num" THEN Str(FixedChars(x.num, x.den, 2, FALSE))
    ELSE [kind |-> "error", num |-> 0, den |-> 1, chars |-> <<>>]

\* Mutant of FormatRow: the change column is formatted in place and the
\* display column copied from it.
FormatRowInPlace(row) ==
    LET r1 == SetCol(row, "Current Vol", FmtCell(row[VOL_COL], 0))
        r2 == SetCol(r1, "Avg Vol 60d", FmtCell(r1[AVG_VOL_COL_NAME], 0))
        r3 == SetCol(r2, "Float", FmtCell(r2[FLOAT_COL], 0))
        r4 == SetCol(r3, "Rel Vol 60d (x)", FmtCell(r3["Volume Ratio"], 2))
        r5 == SetCol(r4, CHANGE_COL, FmtCell(r4[CHANGE_COL], 2))
        r6 == SetCol(r5, "Change from Close (%)", r5[CHANGE_COL])
    IN SetCol(r6, "Price", PriceCell(r6[PRICE_COL]))

\* Lines 256-265: the display columns, each computed from a numeric column.
FormatRow(row) ==
    LET r1 == SetCol(row, "Current Vol", FmtCell(row[VOL_COL], 0))
        r2 == SetCol(r1, "Avg Vol 60d", FmtCell(r1[AVG_VOL_COL_NAME], 0))
        r3 == SetCol(r2, "Float", FmtCell(r2[FLOAT_COL], 0))
        r4 == SetCol(r3, "Rel Vol 60d (x)", FmtCell(r3["Volume Ratio"], 2))
        r5 == SetCol(r4, "Change from Close (%)", FmtCell(r4[CHANGE_COL], 2))
    IN SetCol(r5, "Price", PriceCell(r5[PRICE_COL]))

FormatColumns(df) == [i \in 1..Len(df) |-> FormatRow(df[i])]

\* float(x) of a string of digits with at most one ".": any other character
\* (a thousands separator) raises ValueError.
RECURSIVE DigitsValue(_)
DigitsValue(s) ==
    IF s = <<>> THEN 0 ELSE 10 * DigitsValue(SubSeq(s, 1, Len(s) - 1)) + DigitVal(s[Len(s)])

FloatOf(s) ==
    LET dots == {i \in 1..Len(s) : s[i] = "."}
        bad == {i \in 1..Len(s) : ~IsDigit(s[i]) /\ s[i] # "."}
    IN IF bad # {} \/ Cardinality(dots) > 1 \/ Len(s) = Cardinality(dots)
       THEN [kind |-> "error", num |-> 0, den |-> 1, chars |-> <<>>]
       ELSE LET ds == SelectSeq(s, IsDigit)
                frac == IF dots = {} THEN 0 ELSE Len(s) - (CHOOSE i \in dots : TRUE)
            IN Num(DigitsValue(ds), Pow10(frac))

\* Line 285: f"{float(x):.2f}" if x not in ("", None) else ""
ReformatPrice(x) ==
    IF x.kind = "none" \/ (x.kind = "str" /\ x.chars = <<>>) THEN Str(<<>>)
    ELSE LET v == IF x.kind = "str" THEN FloatOf(x.chars) ELSE x
         IN IF v.kind = "num" THEN Str(FixedChars(v.num, v.den, 2, FALSE))
            ELSE [kind |-> "error", num |-> 0, den |-> 1, chars |-> <<>>]

\* ---------------------------------------------------------------- ranking
FINAL_COLUMNS ==
    {TICKER_COL, "Price", "Change from Close (%)", "Float", "Makes News (24H)",
     "Rel Vol 60d (x)", "Current Vol", "Avg Vol 60d"}

\* filtered_df[final_columns].rename(columns={TICKER_COL: "Ticker"})
DisplayRow(row) ==
    [c \in (FINAL_COLUMNS \ {TICKER_COL}) \cup {"Ticker"} |->
        IF c = "Ticker" THEN row[TICKER_COL] ELSE row[c]]

\* The order sort_values(by=..., ascending=False) puts two values of the
\* string column in: a goes before b when b < a as Python strings.
SortsBefore(a, b) == StrLess(b.chars, a.chars)

\* Insert row behind every row that does not sort after it (ties keep the
\* input order: the frames here are below numpy's insertion-sort threshold).
RECURSIVE InsertSorted(_, _, _)
InsertSorted(sorted, row, by) ==
    IF sorted = <<>> THEN <<row>>
    ELSE IF SortsBefore(row[by], Head(sorted)[by]) THEN <<row>> \o sorted
    ELSE <<Head(sorted)>> \o InsertSorted(Tail(sorted), row, by)

RECURSIVE SortValuesDesc(_, _)
SortValuesDesc(rows, by) ==
    IF rows = <<>> THEN <<>>
    ELSE InsertSorted(SortValuesDesc(SubSeq(rows, 1, Len(rows) - 1), by),
                      rows[Len(rows)], by)

\* df.head(n)
HeadRows(rows, n) == SubSeq(rows, 1, IF Len(rows) < n THEN Len(rows) ELSE n)

\* Lines 279-287: select, rename, sort, then the Price column once more.
DisplayFrame(formatted) ==
    LET sorted == SortValuesDesc([i \in 1..Len(formatted) |-> DisplayRow(formatted[i])],
                                 "Change from Close (%)")
    IN [i \in 1..Len(sorted) |-> SetCol(sorted[i], "Price", ReformatPrice(sorted[i]["Price"]))]

\* Lines 295-300: one link per row of filtered_df.head(10) that has a URL.
RECURSIVE LinksOf(_)
LinksOf(rows) ==
    IF rows = <<>> THEN <<>>
    ELSE (IF Head(rows)["News URL"] # ""
          THEN <<[ticker |-> Head(rows)[TICKER_COL], url |-> Head(rows)["News URL"]]>>
          ELSE <<>>) \o LinksOf(Tail(rows))

ArticleLinks(formatted) == LinksOf(HeadRows(formatted, HEAD_ROWS))

\* Lines 238-253: the two news columns joined to the candidates.
MergeNews(filtered, news) ==
    [i \in 1..Len(filtered) |->
        SetCol(SetCol(filtered[i], "Makes News (24H)", news[i].makes_news),
               "News URL", news[i].url)]

\* ---------------------------------------------------------------- inputs
\* Half seconds since the epoch at which main() may start.
NowHalves == {200001}

\* news_cutoff_utc = now - NEWS_CHECK_HOURS - TIME_BUFFER_MINUTES, in half seconds.
NewsCutoff(now_h) ==
    now_h - 2 * (NEWS_CHECK_HOURS * 3600 + TIME_BUFFER_MINUTES * 60)

\* Cutoff instants on a whole second and half a second later.
CutoffHalves == {NewsCutoff(n) - 1 : n \in NowHalves} \cup {NewsCutoff(n) : n \in NowHalves}

\* Article timestamps around the cutoff: none (0), at the cutoff second, after it.
BaseUnix == CutoffUnix(NewsCutoff(200001))
ArticleTimes == {0, BaseUnix, BaseUnix + 1}

UrlPairs == {<<"", "">>, <<"A", "">>, <<"", "N">>, <<"B", "N">>}

Articles ==
    {Article("other", "none", 0, "", ""),
     Article("dict", "none", 0, "A", ""),
     Article("dict", "str", 0, "A", "")}
      \cup {Article("dict", "int", t, u[1], u[2]) : t \in ArticleTimes, u \in UrlPairs}

RECURSIVE SeqsUpTo(_, _)
SeqsUpTo(S, n) ==
    IF n = 0 THEN {<<>>}
    ELSE LET shorter == SeqsUpTo(S, n - 1)
         IN shorter \cup {Append(q, x) : q \in {r \in shorter : Len(r) = n - 1}, x \in S}

Response(k, arts) == [kind |-> k, articles |-> arts]
NoCall == Response("nocall", <<>>)

\* Everything client.company_news may do for one call.
AllResponses ==
    {Response("raise", <<>>), Response("none", <<>>)}
      \cup {Response("list", a) : a \in SeqsUpTo(Articles, MaxArticles) \ {<<>>}}

\* The responses the full pipeline is run against.
PipelineResponses ==
    {Response("raise", <<>>),
     Response("none", <<>>),
     Response("list", <<Article("dict", "int", BaseUnix + 1, "A", "")>>),
     Response("list", <<Article("dict", "int", BaseUnix + 1, "", "")>>),
     Response("list", <<Article("other", "none", 0, "", "")>>),
     Response("list", <<Article("dict", "int", BaseUnix, "B", ""),
                        Article("dict", "int", BaseUnix + 1, "", "N")>>)}

MarketRow(ticker, close, change, float, volume, avg, prev) ==
    (TICKER_COL :> ticker) @@ (PRICE_COL :> close) @@ (CHANGE_COL :> change)
      @@ (FLOAT_COL :> float) @@ (VOL_COL :> volume) @@ (AVG_VOL_COL_NAME :> avg)
      @@ (PREV_AVG_VOL_COL :> prev)

\* The i-th row of a snapshot has one of the i-th tickers (tickers are unique);
\* the second of each pair has no symbol: a bare exchange prefix, None, "".
Tickers ==
    <<{Str(<<"N", "Y", "S", "E", ":", "A", "A">>), Str(<<"A", ":", " ">>)},
      {Str(<<"B", "B">>), None},
      {Str(<<"N", "A", "S", "D", "A", "Q", ":", "C", "C">>), Str(<<>>)}>>

\* Tickers check_for_news_finnhub is tried on: plain, prefixed, padded, empty,
\* a bare prefix, None and a float NaN.
NewsTickers ==
    {Str(<<"A", "A">>), Str(<<"X", ":", "A", "A", " ">>), Str(<<>>), Str(<<"X", ":">>),
     None, NaN}

\* Values in eighths: 12.375, 2.0, 20.0 pass the price band, 25.0 does not.
\* Values in eighths: 12.375 is in the price band, 25.0 is not.
ClosePrices == {Num(99, 8), Num(200, 8)}
\* 25.0, 100.0 and 10.0 (not above MIN_PREMARKET_CHANGE)
Changes == {Num(200, 8), Num(800, 8), Num(80, 8)}
Floats == {Num(1500000, 1), Num(30000000, 1)}
\* <<volume, average volume, prior-period average volume>>
VolumeProfiles ==
    {<<Num(12, 1), Num(5, 2), Num(2, 1)>>,
     <<Num(10, 1), Num(2, 1), Num(2, 1)>>,
     <<Num(12, 1), Num(2, 1), Num(0, 1)>>,
     <<Num(12, 1), Num(2, 1), NaN>>,
     <<NaN, Num(2, 1), Num(2, 1)>>}

\* The rows the snapshot provider can return for ticker t: those that satisfy
\* the where() clause.
SnapshotRows(ts) ==
    {r \in {MarketRow(t, c, ch, f, v[1], v[2], v[3]) :
              t \in ts, c \in ClosePrices, ch \in Changes, f \in Floats, v \in VolumeProfiles} :
        StaticPredicates(r)}

RECURSIVE Snapshots(_)
Snapshots(n) ==
    IF n = 0 THEN {<<>>}
    ELSE LET shorter == Snapshots(n - 1)
         IN shorter \cup {Append(q, r) : q \in {x \in shorter : Len(x) = n - 1},
                                          r \in SnapshotRows(Tickers[n])}

\* ---------------------------------------------------------------- state
VARIABLES
    pc,           \* where main() is
    now_half,     \* the clock at start, in half seconds
    api_key_set,  \* FINNHUB_API_KEY is in the environment
    init_ok,      \* finnhub.Client(...) does not raise
    cutoff_half,  \* news_cutoff_utc, in half seconds
    fh_client,    \* "client" or "None"
    df,           \* the snapshot
    filtered_df,  \* the candidates (later with the news and display columns)
    responses,    \* what the provider did for each candidate looked up so far
    news_list,    \* the (makes_news, url) pairs so far
    news_calls,   \* number of company_news calls issued
    display_df,   \* the sorted display frame
    table,        \* the rows of the exported table
    links,        \* the exported article links
    file,         \* the export file: does it exist, how many writes reached it
    printed,      \* table and links were printed
    logged        \* the stage whose exception logger.exception recorded, or ""

vars ==
    <<pc, now_half, api_key_set, init_ok, cutoff_half, fh_client, df, filtered_df,
      responses, news_list, news_calls, display_df, table, links, file, printed, logged>>

env == <<now_half, api_key_set, init_ok>>
outputs == <<display_df, table, links, file, printed>>

\* The four f.write calls of the export.
FileChunks == <<"# Screener Results", "table_md", "blank", "links_md">>

Blank ==
    /\ cutoff_half = 0
    /\ fh_client = "None"
    /\ df = <<>>
    /\ filtered_df = <<>>
    /\ responses = <<>>
    /\ news_list = <<>>
    /\ news_calls = 0
    /\ display_df = <<>>
    /\ table = <<>>
    /\ links = <<>>
    /\ file = [exists |-> FALSE, written |-> 0]
    /\ printed = FALSE
    /\ logged = ""

Init ==
    /\ pc = "start"
    /\ now_half \in NowHalves
    /\ api_key_set \in BOOLEAN
    /\ init_ok \in BOOLEAN
    /\ (~api_key_set => init_ok)
    /\ Blank

\* Lines 169-189: the cutoff, the cookies, the Finnhub client.
Setup ==
    /\ pc = "start"
    /\ cutoff_half' = NewsCutoff(now_half)
    /\ fh_client' = get_finnhub_client(api_key_set, init_ok)
    /\ pc' = "query"
    /\ UNCHANGED <<env, df, filtered_df, responses, news_list, news_calls, outputs, logged>>

\* except Exception as exc: logger.exception(...)
Fail(stage) ==
    /\ pc' = "failed"
    /\ logged' = stage

\* Lines 193-211 raising: the snapshot provider is unavailable.
QueryRaises ==
    /\ pc = "query"
    /\ Fail("snapshot")
    /\ UNCHANGED <<env, cutoff_half, fh_client, df, filtered_df, responses, news_list,
                   news_calls, outputs>>

\* Lines 193-230: the snapshot, the ratio column, the filter, the early returns.
Query ==
    /\ pc = "query"
    /\ \E snap \in Snapshots(MaxRows) :
         /\ df' = WithVolumeRatio(snap)
         /\ filtered_df' = (IF snap = <<>> THEN <<>> ELSE RelativeVolumeFilter(snap))
         /\ pc' = AfterQuery(snap, IF snap = <<>> THEN <<>> ELSE RelativeVolumeFilter(snap))
    /\ UNCHANGED <<env, cutoff_half, fh_client, responses, news_list, news_calls,
                   outputs, logged>>

\* What the provider may do for a call: every response, or the pipeline's.
ProviderResponses(every) == IF every THEN AllResponses ELSE PipelineResponses

\* Lines 234-236, one candidate: the lambda of filtered_df[TICKER_COL].apply.
NewsStep(every) ==
    /\ pc = "news"
    /\ Len(news_list) < Len(filtered_df)
    /\ LET ticker == filtered_df[Len(news_list) + 1][TICKER_COL]
           calls == check_for_news_finnhub(ticker, cutoff_half, fh_client, NoCall).called
       IN \E resp \in (IF calls THEN ProviderResponses(every) ELSE {NoCall}) :
            LET r == check_for_news_finnhub(ticker, cutoff_half, fh_client, resp)
            IN /\ responses' = Append(responses, resp)
               /\ news_calls' = news_calls + (IF r.called THEN 1 ELSE 0)
               /\ IF r.raised
                  THEN Fail("news") /\ UNCHANGED news_list
                  ELSE /\ news_list' = Append(news_list, [makes_news |-> r.makes_news,
                                                          url |-> r.url])
                       /\ UNCHANGED <<pc, logged>>
    /\ UNCHANGED <<env, cutoff_half, fh_client, df, filtered_df, outputs>>

NewsCheck == NewsStep(FALSE)

\* apply() has visited every candidate.
NewsDone ==
    /\ pc = "news"
    /\ Len(news_list) = Len(filtered_df)
    /\ pc' = "rank"
    /\ UNCHANGED <<env, cutoff_half, fh_client, df, filtered_df, responses, news_list,
                   news_calls, outputs, logged>>

HasError(rows, col) == \E i \in 1..Len(rows) : rows[i][col].kind = "error"

\* Lines 238-300: merge, format, rank, table and links.
Rank ==
    /\ pc = "rank"
    /\ LET formatted == FormatColumns(MergeNews(filtered_df, news_list))
           display == DisplayFrame(formatted)
       IN IF HasError(formatted, "Price") \/ HasError(display, "Price")
          THEN Fail("format") /\ UNCHANGED <<filtered_df, display_df, table, links>>
          ELSE /\ filtered_df' = formatted
               /\ display_df' = display
               /\ table' = HeadRows(display, HEAD_ROWS)
               /\ links' = ArticleLinks(formatted)
               /\ pc' = "open"
               /\ UNCHANGED logged
    /\ UNCHANGED <<env, cutoff_half, fh_client, df, responses, news_list, news_calls,
                   file, printed>>

\* Line 305: open(export_filename, "w") raises; nothing was created.
OpenRaises ==
    /\ pc = "open"
    /\ Fail("open")
    /\ UNCHANGED <<env, cutoff_half, fh_client, df, filtered_df, responses, news_list,
                   news_calls, outputs>>

\* Line 305: the file is created (or truncated).
OpenFile ==
    /\ pc = "open"
    /\ file' = [exists |-> TRUE, written |-> 0]
    /\ pc' = "write"
    /\ UNCHANGED <<env, cutoff_half, fh_client, df, filtered_df, responses, news_list,
                   news_calls, display_df, table, links, printed, logged>>

\* Lines 306-309: one of the writes raises; the earlier ones reached the file.
WriteRaises ==
    /\ pc = "write"
    /\ \E k \in 0..(Len(FileChunks) - 1) : file' = [exists |-> TRUE, written |-> k]
    /\ Fail("write")
    /\ UNCHANGED <<env, cutoff_half, fh_client, df, filtered_df, responses, news_list,
                   news_calls, display_df, table, links, printed>>

\* Lines 306-309: all four writes, then the file is closed.
WriteFile ==
    /\ pc = "write"
    /\ file' = [exists |-> TRUE, written |-> Len(FileChunks)]
    /\ pc' = "print"
    /\ UNCHANGED <<env, cutoff_half, fh_client, df, filtered_df, responses, news_list,
                   news_calls, display_df, table, links, printed, logged>>

\* Lines 312-313: print raises (a closed pipe, an encoding error).
PrintRaises ==
    /\ pc = "print"
    /\ Fail("print")
    /\ UNCHANGED <<env, cutoff_half, fh_client, df, filtered_df, responses, news_list,
                   news_calls, outputs>>

\* Lines 312-313.
PrintOut ==
    /\ pc = "print"
    /\ printed' = TRUE
    /\ pc' = "done"
    /\ UNCHANGED <<env, cutoff_half, fh_client, df, filtered_df, responses, news_list,
                   news_calls, display_df, table, links, file, logged>>

Next ==
    \/ Setup
    \/ QueryRaises
    \/ Query
    \/ NewsCheck
    \/ NewsDone
    \/ Rank
    \/ OpenRaises
    \/ OpenFile
    \/ WriteRaises
    \/ WriteFile
    \/ PrintRaises
    \/ PrintOut

Spec == Init /\ [][Next]_vars

\* ---------------------------------------------------------------- check_for_news_finnhub alone
\* One candidate in the news stage, every ticker shape, every provider response.
InitNews ==
    /\ pc = "news"
    /\ now_half \in NowHalves
    /\ api_key_set \in BOOLEAN
    /\ init_ok \in BOOLEAN
    /\ (~api_key_set => init_ok)
    /\ cutoff_half \in CutoffHalves
    /\ fh_client = get_finnhub_client(api_key_set, init_ok)
    /\ \E t \in NewsTickers :
         /\ df = WithVolumeRatio(<<MarketRow(t, Num(99, 8), Num(200, 8), Num(1500000, 1),
                                             Num(12, 1), Num(5, 2), Num(2, 1))>>)
         /\ filtered_df = RelativeVolumeFilter(df)
    /\ responses = <<>>
    /\ news_list = <<>>
    /\ news_calls = 0
    /\ display_df = <<>>
    /\ table = <<>>
    /\ links = <<>>
    /\ file = [exists |-> FALSE, written |-> 0]
    /\ printed = FALSE
    /\ logged = ""

NewsCheckAll == NewsStep(TRUE)

NextNews == NewsCheckAll \/ NewsDone

SpecNews == InitNews /\ [][NextNews]_vars

\* ---------------------------------------------------------------- the formatter alone
\* One candidate before the ranking stage, numeric columns from a wide domain:
\* missing values, ties at the third decimal, four and seven digit numbers.
\* Only rows that pass the relative-volume filter get here.
FormatCloses == {NaN, Num(99, 8), Num(17, 8), Num(9876, 8)}
FormatChanges == {NaN, Num(200, 8), Num(9872, 8), Num(101, 8)}
FormatFloats == {NaN, Num(999, 1), Num(1500000, 1)}
FormatVolumes == {NaN, Num(100, 1), Num(1234567, 1)}
FormatAverages == {NaN, Num(5, 2), Num(8004, 8)}
FormatPrevAverages == {NaN, Num(0, 1), Num(2, 1), Num(3, 1), Num(7, 1)}

InitFormat ==
    /\ pc = "rank"
    /\ now_half \in NowHalves
    /\ api_key_set = TRUE
    /\ init_ok = TRUE
    /\ cutoff_half = NewsCutoff(now_half)
    /\ fh_client = "client"
    /\ \E c \in FormatCloses, ch \in FormatChanges, f \in FormatFloats,
          v \in FormatVolumes, a \in FormatAverages, pa \in FormatPrevAverages :
         /\ df = WithVolumeRatio(<<MarketRow(Str(<<"A", "A">>), c, ch, f, v, a, pa)>>)
         /\ filtered_df = RelativeVolumeFilter(df)
         /\ filtered_df # <<>>
    /\ responses = <<Response("none", <<>>)>>
    /\ news_list = <<[makes_news |-> FALSE, url |-> ""]>>
    /\ news_calls = 1
    /\ display_df = <<>>
    /\ table = <<>>
    /\ links = <<>>
    /\ file = [exists |-> FALSE, written |-> 0]
    /\ printed = FALSE
    /\ logged = ""

NextFormat == Rank

SpecFormat == InitFormat /\ [][NextFormat]_vars

\* ---------------------------------------------------------------- properties
\* a >= b and a = b for two numeric cells.
CellGe(a, b) == a.num * b.den >= b.num * a.den
CellEq(a, b) == a.num * b.den = b.num * a.den

\* The candidates carry the display columns: the ranking stage has run.
Ranked == pc \in {"open", "write", "print", "done"} \/ logged \in {"open", "write", "print"}

\* The snapshot query has returned.
Queried == pc \notin {"start", "query"} /\ logged # "snapshot"

\* The news stage is over.
NewsOver == pc = "rank" \/ Ranked

\* Position of the candidate with ticker t in filtered_df (the input order).
CandidateIndex(t) == CHOOSE i \in 1..Len(filtered_df) : filtered_df[i][TICKER_COL] = t

Candidate(t) == filtered_df[CandidateIndex(t)]

\* C1: in the final table every row's premarket change is, as a number, at
\* least the next row's, and rows with equal change keep their input order.
C1_TableRankedByChange ==
    Ranked =>
      \A i \in 1..(Len(table) - 1) :
        LET a == Candidate(table[i]["Ticker"])
            b == Candidate(table[i + 1]["Ticker"])
        IN /\ CellGe(a[CHANGE_COL], b[CHANGE_COL])
           /\ CellEq(a[CHANGE_COL], b[CHANGE_COL]) =>
                CandidateIndex(table[i]["Ticker"]) < CandidateIndex(table[i + 1]["Ticker"])

\* The strict-greater test of the claim, on the cutoff instant itself.
Qualifies(art) == art.dt_kind = "int" /\ 2 * art.datetime > cutoff_half

WellFormed(resp) ==
    /\ resp.kind \in {"none", "list"}
    /\ \A j \in 1..Len(resp.articles) :
         resp.articles[j].kind = "dict" /\ resp.articles[j].dt_kind # "str"

RECURSIVE TableLinks(_)
TableLinks(rows) ==
    IF rows = <<>> THEN <<>>
    ELSE LET c == Candidate(Head(rows)["Ticker"])
         IN (IF c["News URL"] # ""
             THEN <<[ticker |-> c[TICKER_COL], url |-> c["News URL"]]>>
             ELSE <<>>) \o TableLinks(Tail(rows))

\* C3: the article links are those of the table's rows, in the table's order.
C3_LinksFollowTable == Ranked => links = TableLinks(table)

\* What the provider did for a lookup makes the lookup fail: it raised, or
\* the first entry of the payload is malformed.
FailedLookup(resp) ==
    \/ resp.kind = "raise"
    \/ /\ resp.kind = "list"
       /\ (resp.articles[1].kind # "dict" \/ resp.articles[1].dt_kind = "str")

\* The provider returned a well-formed article after the cutoff first.
GoodLookup(resp) ==
    /\ resp.kind = "list"
    /\ resp.articles[1].kind = "dict"
    /\ Qualifies(resp.articles[1])

\* C4: the news stage never raises into main(): every candidate looked up has
\* exactly one pair, a failed lookup or a ticker with no symbol gives
\* (FALSE, "") for that candidate only, and the stage runs to its end.
C4_NewsStageNeverRaises ==
    /\ logged # "news"
    /\ Len(news_list) = Len(responses)
    /\ Len(news_list) <= Len(filtered_df)
    /\ NewsOver => Len(news_list) = Len(filtered_df)
    /\ \A i \in 1..Len(news_list) :
         /\ (FailedLookup(responses[i])
               \/ ~Truthy(normalize_ticker_for_finnhub(filtered_df[i][TICKER_COL])))
              => news_list[i] = [makes_news |-> FALSE, url |-> ""]
         /\ GoodLookup(responses[i]) => news_list[i].makes_news

\* C4 witness: the first lookup raised, the second found news, the run is done.
C4_Witness ==
    /\ pc = "done"
    /\ Len(news_list) = 2
    /\ responses[1].kind = "raise"
    /\ news_list[1] = [makes_news |-> FALSE, url |-> ""]
    /\ news_list[2] = [makes_news |-> TRUE, url |-> "A"]

\* C5: a failed run leaves no output file.
C5_FailedRunLeavesNoFile == pc = "failed" => ~file.exists

\* C6: every candidate has a defined volume / prior average above the
\* multiplier; a row with a zero or missing denominator has a missing ratio;
\* rows with a zero or missing denominator, a missing volume or a ratio equal
\* to the multiplier are not candidates, and the filter raises nothing.
C6_CandidatesAboveMultiplier ==
    Queried =>
      /\ \A i \in 1..Len(filtered_df) :
           LET r == filtered_df[i]
           IN /\ r[VOL_COL].kind = "num"
              /\ r[PREV_AVG_VOL_COL].kind = "num"
              /\ r[PREV_AVG_VOL_COL].num # 0
              /\ r["Volume Ratio"].kind = "num"
              /\ r["Volume Ratio"].den # 0
              /\ r["Volume Ratio"].num * r[PREV_AVG_VOL_COL].num * r[VOL_COL].den
                   = r[VOL_COL].num * r[PREV_AVG_VOL_COL].den * r["Volume Ratio"].den
              /\ r[VOL_COL].num * r[PREV_AVG_VOL_COL].den
                   > MIN_RELATIVE_VOLUME_MULTIPLIER * r[PREV_AVG_VOL_COL].num * r[VOL_COL].den
      /\ \A j \in 1..Len(df) :
           (\/ df[j][PREV_AVG_VOL_COL].kind # "num"
            \/ df[j][PREV_AVG_VOL_COL].num = 0
            \/ df[j][VOL_COL].kind # "num"
            \/ df[j][VOL_COL].num * df[j][PREV_AVG_VOL_COL].den
                 = MIN_RELATIVE_VOLUME_MULTIPLIER * df[j][PREV_AVG_VOL_COL].num
                     * df[j][VOL_COL].den)
             => \A i \in 1..Len(filtered_df) : filtered_df[i][TICKER_COL] # df[j][TICKER_COL]
      /\ \A j \in 1..Len(df) :
           (\/ df[j][PREV_AVG_VOL_COL].kind # "num"
            \/ df[j][PREV_AVG_VOL_COL].num = 0)
             => df[j]["Volume Ratio"] = NaN
      /\ pc \in {"news", "early"} => logged = ""

\* C6 witness: a snapshot with a zero denominator and a ratio of exactly the
\* multiplier, of which nothing is left.
C6_Witness ==
    /\ pc = "early"
    /\ Len(df) = 2
    /\ df[1][PREV_AVG_VOL_COL] = Num(0, 1)
    /\ df[2][VOL_COL] = Num(10, 1)
    /\ df[2][PREV_AVG_VOL_COL] = Num(2, 1)
    /\ filtered_df = <<>>

\* C7: an empty snapshot or an empty candidate set ends the run at once, as a
\* normal outcome: no news query, no table, no file, nothing printed or logged.
C7_EarlyTermination ==
    (Queried /\ (df = <<>> \/ filtered_df = <<>>)) =>
      /\ pc = "early"
      /\ news_calls = 0
      /\ responses = <<>>
      /\ news_list = <<>>
      /\ table = <<>>
      /\ ~file.exists
      /\ ~printed
      /\ logged = ""

\* C7 witness: rows were returned and none passed the relative-volume filter.
C7_Witness == pc = "early" /\ df # <<>> /\ filtered_df = <<>>

\* C8: without an API key, or when the client cannot be constructed, the
\* provider is never called, every candidate gets (FALSE, "") and the news
\* stage does not fail.
C8_NoClientNoCalls ==
    (pc # "start" /\ (~api_key_set \/ ~init_ok)) =>
      /\ fh_client = "None"
      /\ news_calls = 0
      /\ logged # "news"
      /\ \A i \in 1..Len(news_list) : news_list[i] = [makes_news |-> FALSE, url |-> ""]
      /\ \A i \in 1..Len(responses) : responses[i] = NoCall

\* C8 witness: a run without API key that wrote and printed a two-row table.
C8_Witness ==
    /\ pc = "done"
    /\ ~api_key_set
    /\ Len(table) = 2
    /\ Len(news_list) = 2
    /\ file = [exists |-> TRUE, written |-> Len(FileChunks)]
    /\ printed

DISPLAY_SOURCES ==
    <<<<"Current Vol", VOL_COL>>, <<"Avg Vol 60d", AVG_VOL_COL_NAME>>,
      <<"Float", FLOAT_COL>>, <<"Rel Vol 60d (x)", "Volume Ratio">>,
      <<"Change from Close (%)", CHANGE_COL>>, <<"Price", PRICE_COL>>>>

C10_NewsFlagHasUrl ==
    \A i \in 1..Len(news_list) : news_list[i].makes_news => news_list[i].url # ""

====
